---- MODULE Spec2Model ----
(***************************************************************************)
(* PokePacks (src/src/App.jsx): a trip packing-list generator.             *)
(*                                                                         *)
(* The module models the pure functions of App.jsx as operators and the    *)
(* App component's state (its useState cells) with one action per event    *)
(* handler.  JavaScript values are represented as follows.                 *)
(*   - an ISO date string "YYYY-MM-DD" is the tuple <<y, m, d>>, the empty *)
(*     string is <<>>; string comparison of two such strings is the        *)
(*     lexicographic comparison of the tuples;                             *)
(*   - a value that reaches Number(v) is a record [ty, n]: a number n, a   *)
(*     numeric string denoting n, the empty string, a non-numeric string,  *)
(*     or undefined;                                                       *)
(*   - "number or null" is a record [isNull, n];                           *)
(*   - the IEEE value Infinity is the integer Infinity, larger than every  *)
(*     finite number the model computes.                                   *)
(***************************************************************************)
EXTENDS Integers, Sequences, FiniteSets, TLC

VARIABLES
  segments,        \* useState: the list of trip segments
  washes,          \* useState: wash count (a JS number)
  includeSpareSet, \* useState
  isInternational, \* useState
  isJapanTrip,     \* useState
  bringTablet,     \* useState
  bringWorkLaptop, \* useState
  altAccount,      \* useState
  eggWalker,       \* useState
  tradeList,       \* useState
  partnerPokemon,  \* useState
  isPackingMode,   \* useState
  checkedState,    \* useState: packed flags keyed by bag__category__name
  bagOverrides,    \* useState: bag overrides keyed by category__name
  generated,       \* useState: the displayed list
  edits,           \* number of form edits made so far (bounds the exploration)
  moves,           \* number of bag changes made so far (bounds the exploration)
  lookups,         \* the calls of autoFillWeather that await the network, oldest first
  fn,              \* the pure function a function-level specification applies
  args,            \* its arguments
  ret              \* its result, once applied

vars == <<segments, washes, includeSpareSet, isInternational, isJapanTrip,
          bringTablet, bringWorkLaptop, altAccount, eggWalker, tradeList,
          partnerPokemon, isPackingMode, checkedState, bagOverrides, generated,
          edits, moves, lookups, fn, args, ret>>

appVars == <<segments, washes, includeSpareSet, isInternational, isJapanTrip,
             bringTablet, bringWorkLaptop, altAccount, eggWalker, tradeList,
             partnerPokemon, isPackingMode, checkedState, bagOverrides,
             generated, edits, moves, lookups>>

-----------------------------------------------------------------------------
(* Bounds of the exploration *)

\* days added to each base date to form the dates the inputs are drawn from
MaxSpan == 3
\* form edits explored by the App specification
MaxEdits == 3
\* bag changes explored by the App specification
MaxMoves == 2
\* segments the App specification lets the trip grow to
MaxSegments == 2
\* calls of autoFillWeather awaiting the network at the same time
MaxInFlight == 2

-----------------------------------------------------------------------------
(* JavaScript values *)

Null == [isNull |-> TRUE, n |-> 0]
Some(n) == [isNull |-> FALSE, n |-> n]

JsNum(n) == [ty |-> "number", n |-> n]
JsNumStr(n) == [ty |-> "numstr", n |-> n]
JsEmptyStr == [ty |-> "empty", n |-> 0]
JsText == [ty |-> "text", n |-> 0]
JsUndefined == [ty |-> "undefined", n |-> 0]

\* Number(v): "" converts to 0, a non-numeric string and undefined to NaN.
NaN == [nan |-> TRUE, n |-> 0]
Number(v) ==
  CASE v.ty = "number" -> [nan |-> FALSE, n |-> v.n]
    [] v.ty = "numstr" -> [nan |-> FALSE, n |-> v.n]
    [] v.ty = "empty" -> [nan |-> FALSE, n |-> 0]
    [] v.ty = "text" -> NaN
    [] v.ty = "undefined" -> NaN

\* Number.isFinite on a result of Number(v)
NumberIsFinite(x) == ~x.nan

\* the result of dividing a positive number by zero
Infinity == 1000000000

JsAddKeepLeft(a, b) == a

JsAdd(a, b) == IF a = Infinity \/ b = Infinity THEN Infinity ELSE a + b

CeilDivFloor(a, b) ==
  IF b > 0 THEN (IF a = Infinity THEN Infinity ELSE a \div b)
  ELSE IF b < 0 THEN -(a \div (-b))
  ELSE IF a > 0 THEN Infinity ELSE 0

\* Math.ceil(a / b), for integers b and a with a >= 0 whenever b <= 0
CeilDiv(a, b) ==
  IF b > 0 THEN (IF a = Infinity THEN Infinity ELSE -((-a) \div b))
  ELSE IF b < 0 THEN -(a \div (-b))
  ELSE IF a > 0 THEN Infinity ELSE 0

Min2(a, b) == IF a <= b THEN a ELSE b
Max2Wrong(a, b) == IF a <= b THEN a ELSE b
Max2(a, b) == IF a >= b THEN a ELSE b

-----------------------------------------------------------------------------
(* Dates *)

MsPerDay == 86400000

\* days from 1970-01-01 to the civil date y-m-d (what Date.UTC computes)
DaysFromCivil(y, m, d) ==
  LET yy == IF m <= 2 THEN y - 1 ELSE y
      era == yy \div 400
      yoe == yy - era * 400
      mp == IF m > 2 THEN m - 3 ELSE m + 9
      doy == (153 * mp + 2) \div 5 + d - 1
      doe == yoe * 365 + yoe \div 4 - yoe \div 100 + doy
  IN era * 146097 + doe - 719468

\* A time value (milliseconds since the epoch) is held as [d, ms], standing
\* for d * MsPerDay + ms with 0 <= ms < MsPerDay: the product itself exceeds
\* the integers of the model checker.
\* new Date(`${iso}T00:00:00Z`).getTime()
DateGetTime(iso) == [d |-> DaysFromCivil(iso[1], iso[2], iso[3]), ms |-> 0]

\* a - b on time values
TimeMinus(a, b) ==
  [d |-> a.d - b.d + ((a.ms - b.ms) \div MsPerDay), ms |-> (a.ms - b.ms) % MsPerDay]

\* Math.floor(t / (1000 * 60 * 60 * 24)) on a time value
FloorDays(t) == t.d

parseISODateToUTC(iso) == IF iso = <<>> THEN Null ELSE Some(DateGetTime(iso))

tripDaysInclusiveWrong(startISO, endISO) ==
  LET start == parseISODateToUTC(startISO)
      end == parseISODateToUTC(endISO)
  IN IF start.isNull \/ end.isNull THEN 0
     ELSE LET ms == TimeMinus(end.n, start.n)
              daysDiff == FloorDays(ms)
          IN IF daysDiff >= 0 THEN daysDiff ELSE 0

tripDaysInclusive(startISO, endISO) ==
  LET start == parseISODateToUTC(startISO)
      end == parseISODateToUTC(endISO)
  IN IF start.isNull \/ end.isNull THEN 0
     ELSE LET ms == TimeMinus(end.n, start.n)
              daysDiff == FloorDays(ms)
          IN IF daysDiff >= 0 THEN daysDiff + 1 ELSE 0

\* a < b on two non-empty ISO date strings
IsoLess(a, b) ==
  \/ a[1] < b[1]
  \/ a[1] = b[1] /\ a[2] < b[2]
  \/ a[1] = b[1] /\ a[2] = b[2] /\ a[3] < b[3]

\* the calendar, independently of DaysFromCivil
IsLeap(y) == (y % 4 = 0 /\ y % 100 # 0) \/ y % 400 = 0
DaysInMonth(y, m) ==
  IF m = 2 THEN (IF IsLeap(y) THEN 29 ELSE 28)
  ELSE IF m \in {4, 6, 9, 11} THEN 30 ELSE 31
NextDay(iso) ==
  IF iso[3] < DaysInMonth(iso[1], iso[2]) THEN <<iso[1], iso[2], iso[3] + 1>>
  ELSE IF iso[2] < 12 THEN <<iso[1], iso[2] + 1, 1>>
  ELSE <<iso[1] + 1, 1, 1>>

RECURSIVE AddDays(_, _)
AddDays(iso, k) == IF k = 0 THEN iso ELSE AddDays(NextDay(iso), k - 1)

\* number of calendar days to step from a to b, for a <= b
RECURSIVE WholeDaysBetween(_, _)
WholeDaysBetween(a, b) == IF a = b THEN 0 ELSE 1 + WholeDaysBetween(NextDay(a), b)

BaseDates == {<<2023, 12, 30>>, <<2024, 2, 27>>}
Dates == {AddDays(b, k) : b \in BaseDates, k \in 0..MaxSpan}
DateInputs == Dates \cup {<<>>}

-----------------------------------------------------------------------------
(* Segment windows and weather *)

\* for (const x of s) acc = Op(acc, x)
\* (binding the next accumulator as the element of a singleton makes the
\* model checker compute it once at every iteration instead of nesting the
\* pending calls)
RECURSIVE SeqFoldFrom(_, _, _, _)
SeqFoldFrom(Op(_, _), acc, s, i) ==
  IF i > Len(s) THEN acc
  ELSE CHOOSE r \in {SeqFoldFrom(Op, next, s, i + 1) : next \in {Op(acc, s[i])}} : TRUE
SeqFold(Op(_, _), acc, s) == SeqFoldFrom(Op, acc, s, 1)

computeOverallTripWindow(segs) ==
  LET starts == SelectSeq([i \in 1..Len(segs) |-> segs[i].startDate], LAMBDA d : d # <<>>)
      ends == SelectSeq([i \in 1..Len(segs) |-> segs[i].endDate], LAMBDA d : d # <<>>)
  IN IF Len(starts) = 0 \/ Len(ends) = 0 THEN [startISO |-> <<>>, endISO |-> <<>>]
     ELSE [startISO |-> SeqFold(LAMBDA min, d : IF IsoLess(d, min) THEN d ELSE min,
                                starts[1], starts),
           endISO |-> SeqFold(LAMBDA max, d : IF IsoLess(max, d) THEN d ELSE max,
                              ends[1], ends)]

safeParseNumber(v) ==
  LET n == Number(v) IN IF NumberIsFinite(n) THEN Some(n.n) ELSE Null

WeatherStep(w, s) ==
  LET minT == safeParseNumber(s.tempMin)
      maxT == safeParseNumber(s.tempMax)
  IN [overallMin |-> IF ~minT.isNull
                     THEN (IF w.overallMin.isNull THEN minT
                           ELSE Some(Min2(w.overallMin.n, minT.n)))
                     ELSE w.overallMin,
      overallMax |-> IF ~maxT.isNull
                     THEN (IF w.overallMax.isNull THEN maxT
                           ELSE Some(Max2(w.overallMax.n, maxT.n)))
                     ELSE w.overallMax,
      anyRain |-> w.anyRain \/ s.rainLikely,
      anySun |-> w.anySun \/ s.hotSunLikely,
      anyHumid |-> w.anyHumid \/ s.humidLikely]

computeWeatherSummary(segs) ==
  SeqFold(WeatherStep,
          [overallMin |-> Null, overallMax |-> Null,
           anyRain |-> FALSE, anySun |-> FALSE, anyHumid |-> FALSE],
          segs)

-----------------------------------------------------------------------------
(* Clothes maths *)

computeClothesMathWrong(startISO, endISO, washesRaw, spare) ==
  LET days == tripDaysInclusive(startISO, endISO)
      washCountRaw == Number(washesRaw)
      washCount == IF NumberIsFinite(washCountRaw) THEN washCountRaw.n ELSE 0
      cycles == washCount + 1
      baseSets == IF days > 0 THEN days * cycles ELSE 0
      setsNeeded == IF spare THEN JsAdd(baseSets, 1) ELSE baseSets
  IN [days |-> days, washCount |-> washCount, cycles |-> cycles,
      baseSets |-> baseSets, setsNeeded |-> setsNeeded]

computeClothesMath(startISO, endISO, washesRaw, spare) ==
  LET days == tripDaysInclusive(startISO, endISO)
      washCountRaw == Number(washesRaw)
      washCount == IF NumberIsFinite(washCountRaw) THEN washCountRaw.n ELSE 0
      cycles == washCount + 1
      baseSets == IF days > 0 THEN CeilDiv(days, cycles) ELSE 0
      setsNeeded == IF spare THEN JsAdd(baseSets, 1) ELSE baseSets
  IN [days |-> days, washCount |-> washCount, cycles |-> cycles,
      baseSets |-> baseSets, setsNeeded |-> setsNeeded]

-----------------------------------------------------------------------------
(* Strings: every bag, category and item name of App.jsx with its UTF-16    *)
(* code units, which the string comparisons below read                      *)

CodeUnits ==
  "carryOn" :> <<99, 97, 114, 114, 121, 79, 110>> @@
  "checked" :> <<99, 104, 101, 99, 107, 101, 100>> @@
  "Clothes" :> <<67, 108, 111, 116, 104, 101, 115>> @@
  "Documents" :> <<68, 111, 99, 117, 109, 101, 110, 116, 115>> @@
  "Misc" :> <<77, 105, 115, 99>> @@
  "Money" :> <<77, 111, 110, 101, 121>> @@
  "Pokémon GO" :> <<80, 111, 107, 233, 109, 111, 110, 32, 71, 79>> @@
  "Tech" :> <<84, 101, 99, 104>> @@
  "Toiletries" :> <<84, 111, 105, 108, 101, 116, 114, 105, 101, 115>> @@
  "AirPods" :> <<65, 105, 114, 80, 111, 100, 115>> @@
  "Alt phone" :> <<65, 108, 116, 32, 112, 104, 111, 110, 101>> @@
  "Alt phone charging cable" :> <<65, 108, 116, 32, 112, 104, 111, 110, 101, 32, 99, 104, 97, 114,
      103, 105, 110, 103, 32, 99, 97, 98, 108, 101>> @@
  "Apple Watch" :> <<65, 112, 112, 108, 101, 32, 87, 97, 116, 99, 104>> @@
  "Apple Watch charger" :> <<65, 112, 112, 108, 101, 32, 87, 97, 116, 99, 104, 32, 99, 104, 97,
      114, 103, 101, 114>> @@
  "Australian customs form (blank)" :> <<65, 117, 115, 116, 114, 97, 108, 105, 97, 110, 32, 99,
      117, 115, 116, 111, 109, 115, 32, 102, 111, 114, 109, 32, 40, 98, 108, 97, 110, 107, 41>> @@
  "Band aids" :> <<66, 97, 110, 100, 32, 97, 105, 100, 115>> @@
  "Beanie" :> <<66, 101, 97, 110, 105, 101>> @@
  "Beard wash" :> <<66, 101, 97, 114, 100, 32, 119, 97, 115, 104>> @@
  "Body wash" :> <<66, 111, 100, 121, 32, 119, 97, 115, 104>> @@
  "Bottoms" :> <<66, 111, 116, 116, 111, 109, 115>> @@
  "Chromecast" :> <<67, 104, 114, 111, 109, 101, 99, 97, 115, 116>> @@
  "Condoms" :> <<67, 111, 110, 100, 111, 109, 115>> @@
  "Currency for destination (if you have any)" :> <<67, 117, 114, 114, 101, 110, 99, 121, 32, 102,
      111, 114, 32, 100, 101, 115, 116, 105, 110, 97, 116, 105, 111, 110, 32, 40, 105, 102, 32,
      121, 111, 117, 32, 104, 97, 118, 101, 32, 97, 110, 121, 41>> @@
  "Deodorant" :> <<68, 101, 111, 100, 111, 114, 97, 110, 116>> @@
  "Egg walker" :> <<69, 103, 103, 32, 119, 97, 108, 107, 101, 114>> @@
  "Eki stamp book" :> <<69, 107, 105, 32, 115, 116, 97, 109, 112, 32, 98, 111, 111, 107>> @@
  "Face masks" :> <<70, 97, 99, 101, 32, 109, 97, 115, 107, 115>> @@
  "Gloves" :> <<71, 108, 111, 118, 101, 115>> @@
  "Hat" :> <<72, 97, 116>> @@
  "Hat (optional)" :> <<72, 97, 116, 32, 40, 111, 112, 116, 105, 111, 110, 97, 108, 41>> @@
  "Jeans (or other long pants)" :> <<74, 101, 97, 110, 115, 32, 40, 111, 114, 32, 111, 116, 104,
      101, 114, 32, 108, 111, 110, 103, 32, 112, 97, 110, 116, 115, 41>> @@
  "Lanyard" :> <<76, 97, 110, 121, 97, 114, 100>> @@
  "Laptop charger" :> <<76, 97, 112, 116, 111, 112, 32, 99, 104, 97, 114, 103, 101, 114>> @@
  "Light jacket" :> <<76, 105, 103, 104, 116, 32, 106, 97, 99, 107, 101, 116>> @@
  "Light layer (jumper or cardigan)" :> <<76, 105, 103, 104, 116, 32, 108, 97, 121, 101, 114, 32,
      40, 106, 117, 109, 112, 101, 114, 32, 111, 114, 32, 99, 97, 114, 100, 105, 103, 97, 110,
      41>> @@
  "Lip balm" :> <<76, 105, 112, 32, 98, 97, 108, 109>> @@
  "Main iPhone" :> <<77, 97, 105, 110, 32, 105, 80, 104, 111, 110, 101>> @@
  "Money pouch" :> <<77, 111, 110, 101, 121, 32, 112, 111, 117, 99, 104>> @@
  "Paracetamol" :> <<80, 97, 114, 97, 99, 101, 116, 97, 109, 111, 108>> @@
  "Partner Pokémon plush" :> <<80, 97, 114, 116, 110, 101, 114, 32, 80, 111, 107, 233, 109, 111,
      110, 32, 112, 108, 117, 115, 104>> @@
  "Passport" :> <<80, 97, 115, 115, 112, 111, 114, 116>> @@
  "Pen" :> <<80, 101, 110>> @@
  "Pillow" :> <<80, 105, 108, 108, 111, 119>> @@
  "Pokémon GO Plus+" :> <<80, 111, 107, 233, 109, 111, 110, 32, 71, 79, 32, 80, 108, 117, 115,
      43>> @@
  "Power bank" :> <<80, 111, 119, 101, 114, 32, 98, 97, 110, 107>> @@
  "Printed trade list" :> <<80, 114, 105, 110, 116, 101, 100, 32, 116, 114, 97, 100, 101, 32, 108,
      105, 115, 116>> @@
  "Satchel" :> <<83, 97, 116, 99, 104, 101, 108>> @@
  "Scarf" :> <<83, 99, 97, 114, 102>> @@
  "Shorts" :> <<83, 104, 111, 114, 116, 115>> @@
  "Singlet" :> <<83, 105, 110, 103, 108, 101, 116>> @@
  "Sleepwear" :> <<83, 108, 101, 101, 112, 119, 101, 97, 114>> @@
  "Socks" :> <<83, 111, 99, 107, 115>> @@
  "Sunglasses" :> <<83, 117, 110, 103, 108, 97, 115, 115, 101, 115>> @@
  "Sunscreen" :> <<83, 117, 110, 115, 99, 114, 101, 101, 110>> @@
  "Tablet" :> <<84, 97, 98, 108, 101, 116>> @@
  "Tablet charger" :> <<84, 97, 98, 108, 101, 116, 32, 99, 104, 97, 114, 103, 101, 114>> @@
  "Tablet charging cable" :> <<84, 97, 98, 108, 101, 116, 32, 99, 104, 97, 114, 103, 105, 110, 103,
      32, 99, 97, 98, 108, 101>> @@
  "Toothbrush" :> <<84, 111, 111, 116, 104, 98, 114, 117, 115, 104>> @@
  "Toothpaste" :> <<84, 111, 111, 116, 104, 112, 97, 115, 116, 101>> @@
  "Tops" :> <<84, 111, 112, 115>> @@
  "Travel adapter" :> <<84, 114, 97, 118, 101, 108, 32, 97, 100, 97, 112, 116, 101, 114>> @@
  "Travel hand sanitiser (100ml or less)" :> <<84, 114, 97, 118, 101, 108, 32, 104, 97, 110, 100,
      32, 115, 97, 110, 105, 116, 105, 115, 101, 114, 32, 40, 49, 48, 48, 109, 108, 32, 111, 114,
      32, 108, 101, 115, 115, 41>> @@
  "Umbrella or rain jacket" :> <<85, 109, 98, 114, 101, 108, 108, 97, 32, 111, 114, 32, 114, 97,
      105, 110, 32, 106, 97, 99, 107, 101, 116>> @@
  "Underwear" :> <<85, 110, 100, 101, 114, 119, 101, 97, 114>> @@
  "Vitamins" :> <<86, 105, 116, 97, 109, 105, 110, 115>> @@
  "Viture glasses" :> <<86, 105, 116, 117, 114, 101, 32, 103, 108, 97, 115, 115, 101, 115>> @@
  "Viture neckband" :> <<86, 105, 116, 117, 114, 101, 32, 110, 101, 99, 107, 98, 97, 110, 100>> @@
  "Warm jacket" :> <<87, 97, 114, 109, 32, 106, 97, 99, 107, 101, 116>> @@
  "Warm layer (jumper or hoodie)" :> <<87, 97, 114, 109, 32, 108, 97, 121, 101, 114, 32, 40, 106,
      117, 109, 112, 101, 114, 32, 111, 114, 32, 104, 111, 111, 100, 105, 101, 41>> @@
  "Work laptop" :> <<87, 111, 114, 107, 32, 108, 97, 112, 116, 111, 112>> @@
  "iPhone (for egg walker)" :> <<105, 80, 104, 111, 110, 101, 32, 40, 102, 111, 114, 32, 101, 103,
      103, 32, 119, 97, 108, 107, 101, 114, 41>> @@
  "iPhone charger" :> <<105, 80, 104, 111, 110, 101, 32, 99, 104, 97, 114, 103, 101, 114>> @@
  "iPhone charging cable" :> <<105, 80, 104, 111, 110, 101, 32, 99, 104, 97, 114, 103, 105, 110,
      103, 32, 99, 97, 98, 108, 101>> @@
  "iPhone charging cable (for egg walker)" :> <<105, 80, 104, 111, 110, 101, 32, 99, 104, 97, 114,
      103, 105, 110, 103, 32, 99, 97, 98, 108, 101, 32, 40, 102, 111, 114, 32, 101, 103, 103, 32,
      119, 97, 108, 107, 101, 114, 41>>

\* lexicographic comparison of two sequences of integers: -1, 0 or 1
RECURSIVE LexCompareFrom(_, _, _)
LexCompareFrom(a, b, i) ==
  IF i > Len(a) THEN (IF i > Len(b) THEN 0 ELSE -1)
  ELSE IF i > Len(b) THEN 1
  ELSE IF a[i] < b[i] THEN -1
  ELSE IF a[i] > b[i] THEN 1
  ELSE LexCompareFrom(a, b, i + 1)
LexCompare(a, b) == LexCompareFrom(a, b, 1)

Strings == DOMAIN CodeUnits

\* ordinary comparison of two strings by code units (computed once per pair)
CodeUnitCompareTable ==
  [a \in Strings |-> [b \in Strings |-> LexCompare(CodeUnits[a], CodeUnits[b])]]
CodeUnitCompare(a, b) == CodeUnitCompareTable[a][b]

\* String.prototype.localeCompare, as the Unicode collation algorithm with
\* the root collation orders the characters of CodeUnits: the strings are
\* compared by the primary weights of their characters (space, then
\* punctuation and symbols, then digits, then letters regardless of case and
\* accent), on a tie by accents, on a further tie by case (lower case first).
IsUpper(c) == c \in 65..90
IsLower(c) == c \in 97..122
PrimaryWeight(c) ==
  CASE c = 32 -> 1
    [] c = 40 -> 2
    [] c = 41 -> 3
    [] c = 43 -> 4
    [] c \in 48..57 -> 10 + (c - 48)
    [] IsUpper(c) -> 100 + (c - 65)
    [] IsLower(c) -> 100 + (c - 97)
    [] c = 233 -> 100 + (101 - 97)
SecondaryWeight(c) == IF c = 233 THEN 1 ELSE 0
TertiaryWeight(c) == IF IsUpper(c) THEN 1 ELSE 0

Weights(W(_), s) == [i \in 1..Len(s) |-> W(s[i])]

Collate(a, b) ==
  LET ua == CodeUnits[a]
      ub == CodeUnits[b]
      p == LexCompare(Weights(PrimaryWeight, ua), Weights(PrimaryWeight, ub))
      s == LexCompare(Weights(SecondaryWeight, ua), Weights(SecondaryWeight, ub))
      t == LexCompare(Weights(TertiaryWeight, ua), Weights(TertiaryWeight, ub))
  IN IF p # 0 THEN p ELSE IF s # 0 THEN s ELSE t

\* the collation result of every pair of strings, computed once
CollateTable == [a \in Strings |-> [b \in Strings |-> Collate(a, b)]]

localeCompare(a, b) == CollateTable[a][b]

-----------------------------------------------------------------------------
(* Packing items *)

Bags == {"carryOn", "checked"}

packItemDefaultBag(category, name, quantity, bag) ==
  [category |-> category, name |-> name, quantity |-> quantity, bag |-> "checked"]

packItem(category, name, quantity, bag) ==
  [category |-> category, name |-> name, quantity |-> quantity, bag |-> bag]

stableKey(item) == item.category \o "__" \o item.name

\* the key of uniqItemsByBag, and of a row of BagSection
MergeKey(it) == it.bag \o "__" \o it.category \o "__" \o it.name

\* q || 1
OrOne(q) == IF q = 0 THEN 1 ELSE q

\* A Map is the sequence of its entries [key, value] in insertion order.
\* the index of the entry with this key, 0 when there is none: map.get(key)
RECURSIVE MapFind(_, _, _)
MapFind(map, key, i) ==
  IF i > Len(map) THEN 0
  ELSE IF map[i].key = key THEN i
  ELSE MapFind(map, key, i + 1)

UniqPutKeepFirst(map, key, it, i) ==
  IF i # 0 THEN map ELSE Append(map, [key |-> key, value |-> it])

\* the body of the loop of uniqItemsByBag, given the index of the existing
\* entry (0 for none)
UniqPut(map, key, it, i) ==
  IF i # 0
  THEN [map EXCEPT ![i].value.quantity =
                     JsAdd(OrOne(map[i].value.quantity), OrOne(it.quantity))]
  ELSE Append(map, [key |-> key, value |-> it])

UniqSet(map, key, it) == UniqPut(map, key, it, MapFind(map, key, 1))

UniqStep(map, it) == UniqSet(map, MergeKey(it), it)

\* Array.from(map.values())
MapValues(map) == [i \in 1..Len(map) |-> map[i].value]

uniqItemsByBagNoMerge(items) == items

uniqItemsByBag(items) == MapValues(SeqFold(UniqStep, <<>>, items))

If(c, s) == IF c THEN s ELSE <<>>

addWeatherClothesFallthrough(minT, maxT, rainLikely, hotSunLikely) ==
  If(~minT.isNull,
     If(minT.n <= 5,
        <<packItem("Clothes", "Warm jacket", 1, "checked"),
          packItem("Clothes", "Warm layer (jumper or hoodie)", 1, "checked")>>)
     \o If(minT.n <= 12,
           <<packItem("Clothes", "Light jacket", 1, "checked"),
             packItem("Clothes", "Warm layer (jumper or hoodie)", 1, "checked")>>)
     \o If(minT.n <= 16,
           <<packItem("Clothes", "Light layer (jumper or cardigan)", 1, "checked")>>)
     \o If(minT.n <= 10,
           <<packItem("Clothes", "Beanie", 1, "checked"),
             packItem("Clothes", "Scarf", 1, "checked"),
             packItem("Clothes", "Gloves", 1, "checked")>>))
  \o If(rainLikely, <<packItem("Clothes", "Umbrella or rain jacket", 1, "checked")>>)
  \o If(hotSunLikely, <<packItem("Clothes", "Sunglasses", 1, "checked")>>)
  \o If(~maxT.isNull,
        IF maxT.n >= 32 THEN <<packItem("Clothes", "Hat", 1, "checked")>>
        ELSE IF maxT.n >= 28 THEN <<packItem("Clothes", "Hat (optional)", 1, "checked")>>
        ELSE <<>>)

addWeatherClothes(minT, maxT, rainLikely, hotSunLikely) ==
  If(~minT.isNull,
     (IF minT.n <= 5
      THEN <<packItem("Clothes", "Warm jacket", 1, "checked"),
             packItem("Clothes", "Warm layer (jumper or hoodie)", 1, "checked")>>
      ELSE IF minT.n <= 12
      THEN <<packItem("Clothes", "Light jacket", 1, "checked"),
             packItem("Clothes", "Warm layer (jumper or hoodie)", 1, "checked")>>
      ELSE IF minT.n <= 16
      THEN <<packItem("Clothes", "Light layer (jumper or cardigan)", 1, "checked")>>
      ELSE <<>>)
     \o If(minT.n <= 10,
           <<packItem("Clothes", "Beanie", 1, "checked"),
             packItem("Clothes", "Scarf", 1, "checked"),
             packItem("Clothes", "Gloves", 1, "checked")>>))
  \o If(rainLikely, <<packItem("Clothes", "Umbrella or rain jacket", 1, "checked")>>)
  \o If(hotSunLikely, <<packItem("Clothes", "Sunglasses", 1, "checked")>>)
  \o If(~maxT.isNull,
        IF maxT.n >= 32 THEN <<packItem("Clothes", "Hat", 1, "checked")>>
        ELSE IF maxT.n >= 28 THEN <<packItem("Clothes", "Hat (optional)", 1, "checked")>>
        ELSE <<>>)

\* the items generatePackingList pushes, in order, before it filters,
\* merges and sorts them
emitItems(state) ==
  LET window == computeOverallTripWindow(state.segments)
      maths == computeClothesMath(window.startISO, window.endISO, state.washes,
                                  state.includeSpareSet)
      weather == computeWeatherSummary(state.segments)
      needsJeans == ~weather.overallMin.isNull /\ weather.overallMin.n <= 18
      needsShorts == ~weather.overallMax.isNull /\ weather.overallMax.n >= 24
  IN <<packItem("Tech", "Main iPhone", 1, "carryOn"),
       packItem("Tech", "Apple Watch", 1, "carryOn"),
       packItem("Tech", "AirPods", 1, "carryOn"),
       packItem("Tech", "Viture neckband", 1, "carryOn"),
       packItem("Tech", "Viture glasses", 1, "carryOn")>>
     \o If(state.bringTablet, <<packItem("Tech", "Tablet", 1, "carryOn")>>)
     \o If(state.bringWorkLaptop, <<packItem("Tech", "Work laptop", 1, "carryOn")>>)
     \o <<packItem("Tech", "iPhone charger", 1, "checked"),
          packItem("Tech", "iPhone charging cable", 1, "carryOn"),
          packItem("Tech", "Apple Watch charger", 1, "checked")>>
     \o If(state.bringTablet,
           <<packItem("Tech", "Tablet charger", 1, "checked"),
             packItem("Tech", "Tablet charging cable", 1, "checked")>>)
     \o If(state.bringWorkLaptop, <<packItem("Tech", "Laptop charger", 1, "checked")>>)
     \o If(state.isInternational,
           <<packItem("Tech", "Travel adapter", 1, "checked"),
             packItem("Tech", "Chromecast", 1, "checked")>>)
     \o If(state.isInternational,
           <<packItem("Documents", "Passport", 1, "carryOn"),
             packItem("Money", "Currency for destination (if you have any)", 1, "carryOn"),
             packItem("Money", "Money pouch", 1, "carryOn"),
             packItem("Documents", "Australian customs form (blank)", 1, "carryOn"),
             packItem("Documents", "Pen", 1, "carryOn")>>)
     \o If(state.isJapanTrip, <<packItem("Misc", "Eki stamp book", 1, "carryOn")>>)
     \o <<packItem("Misc", "Pillow", 1, "checked"),
          packItem("Toiletries", "Toothbrush", 1, "checked"),
          packItem("Toiletries", "Toothpaste", 1, "checked"),
          packItem("Toiletries", "Deodorant", 1, "checked"),
          packItem("Toiletries", "Face masks", 1, "carryOn"),
          packItem("Toiletries", "Travel hand sanitiser (100ml or less)", 1, "carryOn"),
          packItem("Toiletries", "Body wash", 1, "checked"),
          packItem("Toiletries", "Beard wash", 1, "checked"),
          packItem("Toiletries", "Vitamins", 1, "checked"),
          packItem("Toiletries", "Paracetamol", 1, "carryOn"),
          packItem("Toiletries", "Band aids", 1, "checked"),
          packItem("Toiletries", "Lip balm", 1, "carryOn"),
          packItem("Toiletries", "Condoms", 1, "checked")>>
     \o If(maths.days > 0,
           <<packItem("Clothes", "Underwear", maths.setsNeeded, "checked"),
             packItem("Clothes", "Socks", maths.setsNeeded, "checked"),
             packItem("Clothes", "Tops", maths.setsNeeded, "checked")>>
           \o If(needsJeans,
                 <<packItem("Clothes", "Jeans (or other long pants)", 1, "checked")>>)
           \o If(needsShorts, <<packItem("Clothes", "Shorts", 2, "checked")>>)
           \o If(~needsJeans /\ ~needsShorts,
                 <<packItem("Clothes", "Bottoms",
                            Max2(1, CeilDiv(maths.setsNeeded, 2)), "checked")>>)
           \o If(weather.anyHumid /\ ~weather.overallMax.isNull /\ weather.overallMax.n >= 26,
                 <<packItem("Clothes", "Singlet", Max2(1, Min2(2, maths.setsNeeded)),
                            "checked")>>)
           \o <<packItem("Clothes", "Sleepwear", 1, "checked")>>
           \o addWeatherClothes(weather.overallMin, weather.overallMax,
                                weather.anyRain, weather.anySun))
     \o If(state.pokemonGoNeeded, <<packItem("Clothes", "Hat", 1, "checked")>>)
     \o If(state.pokemonGoNeeded,
           <<packItem("Pokémon GO", "Power bank", 1, "carryOn"),
             packItem("Pokémon GO", "Pokémon GO Plus+", 1, "carryOn"),
             packItem("Pokémon GO", "Sunscreen", 1, "checked"),
             packItem("Pokémon GO", "Satchel", 1, "checked")>>
           \o If(state.tradeList,
                 <<packItem("Pokémon GO", "Printed trade list", 1, "checked"),
                   packItem("Pokémon GO", "Lanyard", 1, "checked")>>)
           \o If(state.altAccount,
                 <<packItem("Pokémon GO", "Alt phone", 1, "carryOn"),
                   packItem("Pokémon GO", "Alt phone charging cable", 1, "checked")>>)
           \o If(state.eggWalker,
                 <<packItem("Pokémon GO", "Egg walker", 1, "carryOn"),
                   packItem("Pokémon GO", "iPhone (for egg walker)", 2, "carryOn"),
                   packItem("Pokémon GO", "iPhone charging cable (for egg walker)", 2,
                            "checked")>>)
           \o If(state.partnerPokemon,
                 <<packItem("Pokémon GO", "Partner Pokémon plush", 1, "checked")>>))

CompareItemsByNameOnly(a, b) == localeCompare(a.name, b.name)

\* the comparator of the final sort
CompareItems(a, b) ==
  IF a.bag # b.bag THEN localeCompare(a.bag, b.bag)
  ELSE IF a.category # b.category THEN localeCompare(a.category, b.category)
  ELSE localeCompare(a.name, b.name)

\* Array.prototype.sort: a stable sort by the comparator
RECURSIVE InsertPos(_, _, _, _)
InsertPos(cmp(_, _), acc, x, j) ==
  IF j = 0 THEN 0
  ELSE IF cmp(acc[j], x) <= 0 THEN j
  ELSE InsertPos(cmp, acc, x, j - 1)

InsertAt(acc, x, k) ==
  [i \in 1..(Len(acc) + 1) |-> IF i <= k THEN acc[i] ELSE IF i = k + 1 THEN x ELSE acc[i - 1]]

ArraySort(cmp(_, _), s) ==
  LET Insert(acc, x) == InsertAt(acc, x, InsertPos(cmp, acc, x, Len(acc)))
  IN SeqFold(Insert, <<>>, s)

generatePackingList(state) ==
  LET cleaned == SelectSeq(emitItems(state), LAMBDA x : x.quantity > 0)
  IN ArraySort(CompareItems, uniqItemsByBag(cleaned))

-----------------------------------------------------------------------------
(* The rows a bag section displays *)

\* the body of the loop of groupByCategory: the Map has one entry per
\* category, in the order of first appearance, holding the items in list order
GroupPut(map, it) ==
  LET i == MapFind(map, it.category, 1)
  IN IF i = 0 THEN Append(map, [key |-> it.category, value |-> <<it>>])
     ELSE [map EXCEPT ![i].value = Append(map[i].value, it)]

groupByCategory(items) == SeqFold(GroupPut, <<>>, items)

\* const bagItems = items.filter((x) => x.bag === bagKey)
BagItems(items, bagKey) == SelectSeq(items, LAMBDA x : x.bag = bagKey)

\* the rows of BagSection from top to bottom: the categories of catMap in
\* order, the rows of each in order
SectionRows(items, bagKey) ==
  LET Rows(acc, entry) == acc \o entry.value
  IN SeqFold(Rows, <<>>, groupByCategory(BagItems(items, bagKey)))

-----------------------------------------------------------------------------
(* The App component's state after construction *)

\* the segment useState starts with, and addSegment appends
\* id is 1 for the first segment; humidityNote is <<>> for "" and <<pct>> for
\* the note that reports pct per cent
NewSegment ==
  [id |-> 1, location |-> "",
   startDate |-> <<>>, endDate |-> <<>>,
   tempMin |-> JsEmptyStr, tempMax |-> JsEmptyStr,
   rainLikely |-> FALSE, hotSunLikely |-> FALSE, humidLikely |-> FALSE,
   humidityNote |-> <<>>,
   pokemonGo |-> FALSE,
   weatherLoading |-> FALSE, weatherError |-> "",
   resolvedName |-> "", lat |-> Null, lon |-> Null]

\* the empty JS object {}
EmptyObject == [k \in {} |-> ""]

AppConstructed ==
  /\ segments = <<NewSegment>>
  /\ washes = JsNum(0)
  /\ includeSpareSet = TRUE
  /\ isInternational = FALSE
  /\ isJapanTrip = FALSE
  /\ bringTablet = FALSE
  /\ bringWorkLaptop = FALSE
  /\ altAccount = FALSE
  /\ eggWalker = FALSE
  /\ tradeList = FALSE
  /\ partnerPokemon = FALSE
  /\ isPackingMode = FALSE
  /\ generated = <<>>
  /\ edits = 0
  /\ moves = 0
  /\ lookups = <<>>

-----------------------------------------------------------------------------
(* The bag-override layer *)

\* a JS object with string keys is a function; {...obj, [k]: v}
Put(obj, k, v) == [x \in DOMAIN obj \cup {k} |-> IF x = k THEN v ELSE obj[x]]

\* a string is truthy unless empty
Truthy(v) == v # ""

applyOverridesByMergeKey(items, overrides) ==
  [i \in 1..Len(items) |->
     IF MergeKey(items[i]) \in DOMAIN overrides /\ Truthy(overrides[MergeKey(items[i])])
     THEN [items[i] EXCEPT !.bag = overrides[MergeKey(items[i])]]
     ELSE items[i]]

applyOverrides(items, overrides) ==
  [i \in 1..Len(items) |->
     IF stableKey(items[i]) \in DOMAIN overrides /\ Truthy(overrides[stableKey(items[i])])
     THEN [items[i] EXCEPT !.bag = overrides[stableKey(items[i])]]
     ELSE items[i]]

OverridesAfterChangeDroppingPrev(prev, k, bag) == Put(EmptyObject, k, bag)

\* the updater changeBagOverride passes to setBagOverrides
OverridesAfterChange(prev, k, bag) == Put(prev, k, bag)

GeneratedAfterChangeStale(prev, k, bag) == prev

\* the updater changeBagOverride passes to setGenerated
GeneratedAfterChange(prev, k, bag) ==
  [i \in 1..Len(prev) |->
     IF stableKey(prev[i]) = k THEN [prev[i] EXCEPT !.bag = bag] ELSE prev[i]]

-----------------------------------------------------------------------------
(* The App component: one action per event handler.  The effects that      *)
(* reset the sub-flags run after the render that follows a handler, before *)
(* the next event, and are part of the handler's action.  The form (the    *)
(* segment cards, the trip questions and the Generate button) is rendered  *)
(* only while isPackingMode is false, and the bag select of a row is       *)
(* hidden while it is true.                                                *)

PokemonGoNeededOfEvery(segs) == \A i \in 1..Len(segs) : segs[i].pokemonGo

PokemonGoNeededOf(segs) == \E i \in 1..Len(segs) : segs[i].pokemonGo
pokemonGoNeeded == PokemonGoNeededOf(segments)

\* const canGenerate = segments.every(...) && maths.days > 0
canGenerate ==
  LET window == computeOverallTripWindow(segments)
  IN /\ \A i \in 1..Len(segments) :
          segments[i].startDate # <<>> /\ segments[i].endDate # <<>>
     /\ computeClothesMath(window.startISO, window.endISO, washes, includeSpareSet).days > 0

\* the progress panel
totalItems == Len(generated)
packedCount == Cardinality({k \in DOMAIN checkedState : checkedState[k]})
\* Math.round((packedCount / totalItems) * 100), halves rounded up
progress ==
  IF totalItems > 0 THEN (200 * packedCount + totalItems) \div (2 * totalItems) ELSE 0

\* the values the form's fields are set to
AppDates == {<<>>, <<2024, 2, 28>>, <<2024, 3, 1>>}
AppTemps == {JsEmptyStr, JsNumStr(33)}
AppLocations == {"Tokyo"}

\* the records SegmentCard passes to onChange: the segment with one field changed
SegmentEdits(seg) ==
  ({[seg EXCEPT !.location = l] : l \in AppLocations}
     \cup {[seg EXCEPT !.startDate = d] : d \in AppDates}
     \cup {[seg EXCEPT !.endDate = d] : d \in AppDates}
     \cup {[seg EXCEPT !.tempMin = t] : t \in AppTemps}
     \cup {[seg EXCEPT !.tempMax = t] : t \in AppTemps}
     \cup {[seg EXCEPT !.rainLikely = ~seg.rainLikely],
           [seg EXCEPT !.hotSunLikely = ~seg.hotSunLikely],
           [seg EXCEPT !.humidLikely = ~seg.humidLikely],
           [seg EXCEPT !.pokemonGo = ~seg.pokemonGo]})
    \ {seg}

listVars == <<isPackingMode, checkedState, bagOverrides, generated, moves>>
subFlagVars == <<altAccount, eggWalker, tradeList, partnerPokemon>>
tripVars == <<washes, includeSpareSet, isInternational, isJapanTrip, bringTablet,
              bringWorkLaptop>>
pureVars == <<fn, args, ret>>

\* setSegments, followed by the effect on [pokemonGoNeeded]
SetSegments(next) ==
  /\ ~isPackingMode
  /\ edits < MaxEdits
  /\ edits' = edits + 1
  /\ segments' = next
  /\ IF PokemonGoNeededOf(next)
     THEN UNCHANGED subFlagVars
     ELSE /\ altAccount' = FALSE
          /\ eggWalker' = FALSE
          /\ tradeList' = FALSE
          /\ partnerPokemon' = FALSE
  /\ UNCHANGED <<tripVars, listVars, lookups, pureVars>>

updateSegment ==
  \E idx \in 1..Len(segments) : \E next \in SegmentEdits(segments[idx]) :
    SetSegments([segments EXCEPT ![idx] = next])

\* makeId: an id no segment had before
makeId == edits + 2

addSegment ==
  /\ Len(segments) < MaxSegments
  /\ SetSegments(Append(segments, [NewSegment EXCEPT !.id = makeId]))

removeSegment ==
  \E idx \in 1..Len(segments) :
    /\ Len(segments) > 1
    /\ SetSegments([i \in 1..(Len(segments) - 1) |->
                      IF i < idx THEN segments[i] ELSE segments[i + 1]])

\* a trip-wide field of the form is set
EditTrip ==
  /\ ~isPackingMode
  /\ edits < MaxEdits
  /\ edits' = edits + 1
  /\ UNCHANGED <<segments, listVars, lookups, pureVars>>

setWashes ==
  \E n \in 0..3 :
    /\ washes # JsNum(n)
    /\ EditTrip
    /\ washes' = JsNum(n)
    /\ UNCHANGED <<includeSpareSet, isInternational, isJapanTrip, bringTablet,
                   bringWorkLaptop, subFlagVars>>

setIncludeSpareSet ==
  /\ EditTrip
  /\ includeSpareSet' = ~includeSpareSet
  /\ UNCHANGED <<washes, isInternational, isJapanTrip, bringTablet, bringWorkLaptop,
                 subFlagVars>>

\* setIsInternational, followed by the effect on [isInternational]
setIsInternational ==
  /\ EditTrip
  /\ isInternational' = ~isInternational
  /\ isJapanTrip' = IF isInternational' THEN isJapanTrip ELSE FALSE
  /\ UNCHANGED <<washes, includeSpareSet, bringTablet, bringWorkLaptop, subFlagVars>>

\* the checkbox is disabled unless isInternational
setIsJapanTrip ==
  /\ isInternational
  /\ EditTrip
  /\ isJapanTrip' = ~isJapanTrip
  /\ UNCHANGED <<washes, includeSpareSet, isInternational, bringTablet, bringWorkLaptop,
                 subFlagVars>>

setBringTablet ==
  /\ EditTrip
  /\ bringTablet' = ~bringTablet
  /\ UNCHANGED <<washes, includeSpareSet, isInternational, isJapanTrip, bringWorkLaptop,
                 subFlagVars>>

setBringWorkLaptop ==
  /\ EditTrip
  /\ bringWorkLaptop' = ~bringWorkLaptop
  /\ UNCHANGED <<washes, includeSpareSet, isInternational, isJapanTrip, bringTablet,
                 subFlagVars>>

\* the four Pokemon GO questions are rendered only when pokemonGoNeeded
setAltAccount ==
  /\ pokemonGoNeeded
  /\ EditTrip
  /\ altAccount' = ~altAccount
  /\ UNCHANGED <<tripVars, eggWalker, tradeList, partnerPokemon>>

setEggWalker ==
  /\ pokemonGoNeeded
  /\ EditTrip
  /\ eggWalker' = ~eggWalker
  /\ UNCHANGED <<tripVars, altAccount, tradeList, partnerPokemon>>

setTradeList ==
  /\ pokemonGoNeeded
  /\ EditTrip
  /\ tradeList' = ~tradeList
  /\ UNCHANGED <<tripVars, altAccount, eggWalker, partnerPokemon>>

setPartnerPokemon ==
  /\ pokemonGoNeeded
  /\ EditTrip
  /\ partnerPokemon' = ~partnerPokemon
  /\ UNCHANGED <<tripVars, altAccount, eggWalker, tradeList>>

\* the argument onGenerate passes to generatePackingList
FormState ==
  [segments |-> segments, washes |-> washes, includeSpareSet |-> includeSpareSet,
   pokemonGoNeeded |-> pokemonGoNeeded, altAccount |-> altAccount,
   eggWalker |-> eggWalker, tradeList |-> tradeList, partnerPokemon |-> partnerPokemon,
   isInternational |-> isInternational, isJapanTrip |-> isJapanTrip,
   bringTablet |-> bringTablet, bringWorkLaptop |-> bringWorkLaptop]

\* the button is disabled unless canGenerate
onGenerate ==
  /\ ~isPackingMode
  /\ canGenerate
  /\ generated' = applyOverrides(generatePackingList(FormState), bagOverrides)
  /\ checkedState' = EmptyObject
  /\ isPackingMode' = TRUE
  /\ UNCHANGED <<segments, tripVars, subFlagVars, bagOverrides, edits, moves, lookups, pureVars>>

\* the rows whose bag select the exploration operates
MovableNames == {"Pillow", "Hat", "Main iPhone", "iPhone charger"}
MovableKeys ==
  {stableKey(generated[i]) : i \in {j \in 1..Len(generated) : generated[j].name \in MovableNames}}

\* the bag select of BagSection shows bagOverrides[k] ?? it.bag
ShownBag(it) ==
  IF stableKey(it) \in DOMAIN bagOverrides THEN bagOverrides[stableKey(it)] ELSE it.bag

\* the select of a displayed row is changed to another bag
changeBagOverride ==
  \E i \in 1..Len(generated) : \E bag \in Bags \ {ShownBag(generated[i])} :
    /\ ~isPackingMode
    /\ generated[i].name \in MovableNames
    /\ moves < MaxMoves
    /\ moves' = moves + 1
    /\ bagOverrides' = OverridesAfterChange(bagOverrides, stableKey(generated[i]), bag)
    /\ generated' = GeneratedAfterChange(generated, stableKey(generated[i]), bag)
    /\ checkedState' = EmptyObject
    /\ UNCHANGED <<segments, tripVars, subFlagVars, isPackingMode, edits, lookups, pureVars>>

\* the Packing mode checkbox of the header
setIsPackingMode ==
  /\ isPackingMode' = ~isPackingMode
  /\ UNCHANGED <<segments, tripVars, subFlagVars, checkedState, bagOverrides, generated,
                 edits, moves, lookups, pureVars>>

\* the rows whose checkbox the exploration operates
CheckableNames == {"Pillow"}

\* the id of a row of BagSection
RowId(it) == MergeKey(it)

\* !prev[id]
NotChecked(prev, id) == ~(id \in DOMAIN prev /\ prev[id])

\* the updater toggleChecked passes to setCheckedState
CheckedAfterToggle(prev, id) == Put(prev, id, NotChecked(prev, id))

\* the checkbox of a displayed row is clicked
toggleChecked ==
  \E i \in 1..Len(generated) :
    /\ generated[i].name \in CheckableNames
    /\ checkedState' = CheckedAfterToggle(checkedState, RowId(generated[i]))
    /\ UNCHANGED <<segments, tripVars, subFlagVars, isPackingMode, bagOverrides, generated,
                   edits, moves, lookups, pureVars>>

\* what localStorage holds when the App is constructed
PersistedOverrides == {EmptyObject, Put(EmptyObject, "Clothes__Hat", "carryOn")}
PersistedChecked == {EmptyObject, Put(EmptyObject, "checked__Misc__Pillow", TRUE)}

Init ==
  /\ AppConstructed
  /\ checkedState \in PersistedChecked
  /\ bagOverrides \in PersistedOverrides
  /\ fn = "App"
  /\ args = <<>>
  /\ ret = <<>>

Next ==
  \/ updateSegment
  \/ addSegment
  \/ removeSegment
  \/ setWashes
  \/ setIncludeSpareSet
  \/ setIsInternational
  \/ setIsJapanTrip
  \/ setBringTablet
  \/ setBringWorkLaptop
  \/ setAltAccount
  \/ setEggWalker
  \/ setTradeList
  \/ setPartnerPokemon
  \/ onGenerate
  \/ setIsPackingMode
  \/ toggleChecked
  \/ changeBagOverride

Spec == Init /\ [][Next]_vars

-----------------------------------------------------------------------------
(* The weather lookup.  autoFillWeather runs up to its first fetch when the *)
(* button is clicked; a call that awaits the network is an entry of        *)
(* lookups, holding what its closure captured (idx and seg) and where it   *)
(* waits.  A response of the network resumes it.  Temperatures of a        *)
(* forecast are in tenths of a degree.                                     *)

\* (seg.location || "").trim()
BlankStrings == {"", " "}
Trim(str) == IF str \in BlankStrings THEN "" ELSE str

\* a day string is >= another
IsoGeq(a, b) == ~IsoLess(a, b)

dateInSegmentExclusive(dayISO, startISO, endISO) ==
  IF dayISO = <<>> \/ startISO = <<>> \/ endISO = <<>> THEN TRUE
  ELSE IsoGeq(dayISO, startISO) /\ IsoLess(dayISO, endISO)

dateInSegmentInclusive(dayISO, startISO, endISO) ==
  IF dayISO = <<>> \/ startISO = <<>> \/ endISO = <<>> THEN TRUE
  ELSE IsoGeq(dayISO, startISO) /\ IsoGeq(endISO, dayISO)

\* Math.round of a number given in tenths
MathRoundTenths(x) == (x + 5) \div 10

\* Math.round(a / b * 100) for 0 <= a <= b, b > 0
RoundPercent(a, b) == (200 * a + b) \div (2 * b)

\* String(t).split("T")[0] of an hourly time <<y, m, d, h>>
DayOf(t) == SubSeq(t, 1, 3)

computeHumidLikelyFromHourly(hourly, seg) ==
  LET rows == SelectSeq(hourly, LAMBDA r :
                dateInSegmentInclusive(DayOf(r.t), seg.startDate, seg.endDate))
      usable == SelectSeq(rows, LAMBDA r : ~r.hum.isNull)
      humidHours == Len(SelectSeq(usable, LAMBDA r : r.hum.n >= 80))
  IN IF Len(hourly) = 0 \/ Len(usable) = 0 THEN [humidLikely |-> FALSE, note |-> <<>>]
     ELSE [humidLikely |-> 2 * humidHours >= Len(usable),
           note |-> <<RoundPercent(humidHours, Len(usable))>>]

\* [first.name, first.admin1, first.country].filter(Boolean).join(", ")
RECURSIVE JoinComma(_)
JoinComma(parts) ==
  IF parts = <<>> THEN ""
  ELSE IF Len(parts) = 1 THEN parts[1]
  ELSE parts[1] \o ", " \o JoinComma(Tail(parts))

ResolvedName(first) ==
  JoinComma(SelectSeq(<<first.name, first.admin1, first.country>>, LAMBDA x : x # ""))

\* the loop over rowsDaily
DailyStep(acc, r) ==
  [minTemp |-> IF r.min.isNull THEN acc.minTemp
               ELSE IF acc.minTemp.isNull THEN r.min ELSE Some(Min2(acc.minTemp.n, r.min.n)),
   maxTemp |-> IF r.max.isNull THEN acc.maxTemp
               ELSE IF acc.maxTemp.isNull THEN r.max ELSE Some(Max2(acc.maxTemp.n, r.max.n)),
   rainLikely |-> acc.rainLikely \/ (~r.pop.isNull /\ r.pop.n >= 50),
   hotSunLikely |-> acc.hotSunLikely \/ (~r.max.isNull /\ r.max.n >= 280)]

\* the segment autoFillWeather writes when both responses are in
FilledSegment(seg, first, fJson) ==
  LET filteredDaily == SelectSeq(fJson.daily, LAMBDA row :
                         dateInSegmentExclusive(row.t, seg.startDate, seg.endDate))
      rowsDaily == IF Len(filteredDaily) > 0 THEN filteredDaily ELSE fJson.daily
      d == SeqFold(DailyStep,
                   [minTemp |-> Null, maxTemp |-> Null, rainLikely |-> FALSE,
                    hotSunLikely |-> FALSE],
                   rowsDaily)
      humidResult == computeHumidLikelyFromHourly(fJson.hourly, seg)
  IN [seg EXCEPT !.weatherLoading = FALSE,
                 !.weatherError = "",
                 !.resolvedName = ResolvedName(first),
                 !.lat = Some(first.latitude),
                 !.lon = Some(first.longitude),
                 !.tempMin = IF d.minTemp.isNull THEN seg.tempMin
                             ELSE JsNum(MathRoundTenths(d.minTemp.n)),
                 !.tempMax = IF d.maxTemp.isNull THEN seg.tempMax
                             ELSE JsNum(MathRoundTenths(d.maxTemp.n)),
                 !.rainLikely = d.rainLikely,
                 !.hotSunLikely = d.hotSunLikely,
                 !.humidLikely = humidResult.humidLikely,
                 !.humidityNote = humidResult.note]

\* the segment the catch block writes
FailedSegment(seg, message) ==
  [seg EXCEPT !.weatherLoading = FALSE,
              !.weatherError = IF message = "" THEN "Weather lookup failed." ELSE message]

\* prev.map((s, i) => (i === idx ? next : s)): nothing changes when the list
\* has no index idx
SegmentsUpdated(prev, idx, next) ==
  [i \in 1..Len(prev) |-> IF i = idx THEN next ELSE prev[i]]

\* updateSegment called by autoFillWeather, followed by the effect on
\* [pokemonGoNeeded]
WriteSegment(idx, next) ==
  /\ segments' = SegmentsUpdated(segments, idx, next)
  /\ IF PokemonGoNeededOf(segments')
     THEN UNCHANGED subFlagVars
     ELSE /\ altAccount' = FALSE
          /\ eggWalker' = FALSE
          /\ tradeList' = FALSE
          /\ partnerPokemon' = FALSE
  /\ UNCHANGED <<tripVars, listVars, edits, pureVars>>

\* what the geocoding service answers: a first result
GeoResults ==
  {[name |-> "Tokyo", admin1 |-> "", country |-> "Japan", latitude |-> 35, longitude |-> 139]}

\* what makes the geocoding step throw: a response that is not ok, and one
\* without results
GeoErrors ==
  {"Geocoding request failed.", "No matching location found. Try adding country or state."}

\* what the forecast service answers: five days, one of them without a
\* minimum, and four hours of humidity
ForecastResults ==
  {[daily |->
      <<[t |-> <<2024, 2, 27>>, min |-> Some(-14), max |-> Some(96), pop |-> Some(20)],
        [t |-> <<2024, 2, 28>>, min |-> Some(46), max |-> Some(125), pop |-> Some(60)],
        [t |-> <<2024, 2, 29>>, min |-> Null, max |-> Some(284), pop |-> Null],
        [t |-> <<2024, 3, 1>>, min |-> Some(75), max |-> Some(171), pop |-> Some(10)],
        [t |-> <<2024, 3, 2>>, min |-> Some(38), max |-> Some(143), pop |-> Some(45)]>>,
    hourly |->
      <<[t |-> <<2024, 2, 27, 12>>, hum |-> Some(60)],
        [t |-> <<2024, 2, 28, 12>>, hum |-> Some(85)],
        [t |-> <<2024, 2, 29, 12>>, hum |-> Some(90)],
        [t |-> <<2024, 3, 1, 12>>, hum |-> Some(70)]>>]}

\* what makes the forecast step throw: a response that is not ok or lacks
\* the daily values, and a rejected fetch whose error has no message
ForecastErrors == {"Forecast request failed.", ""}

RemoveAt(seq, i) == [j \in 1..(Len(seq) - 1) |-> IF j < i THEN seq[j] ELSE seq[j + 1]]

\* the button of a segment card is clicked; it is disabled while the segment
\* is loading
autoFillWeather ==
  \E idx \in 1..Len(segments) :
    LET seg == segments[idx]
        name == Trim(seg.location)
    IN /\ ~isPackingMode
       /\ ~seg.weatherLoading
       /\ IF name = ""
          THEN /\ WriteSegment(idx, [seg EXCEPT !.weatherError = "Enter a location first.",
                                                !.weatherLoading = FALSE])
               /\ UNCHANGED lookups
          ELSE /\ Len(lookups) < MaxInFlight
               /\ WriteSegment(idx, [seg EXCEPT !.weatherLoading = TRUE,
                                                !.weatherError = "",
                                                !.humidityNote = <<>>])
               /\ lookups' = Append(lookups, [idx |-> idx, seg |-> seg, stage |-> "geocode",
                                              first |-> <<>>])

\* the geocoding service answers the i-th call with a result
GeocodeReturnsAt(i) ==
  /\ i \in 1..Len(lookups)
  /\ lookups[i].stage = "geocode"
  /\ \E first \in GeoResults :
       lookups' = [lookups EXCEPT ![i].stage = "forecast", ![i].first = <<first>>]
  /\ UNCHANGED <<segments, tripVars, subFlagVars, listVars, edits, pureVars>>

\* the geocoding step of the i-th call throws
GeocodeFailsAt(i) ==
  /\ i \in 1..Len(lookups)
  /\ lookups[i].stage = "geocode"
  /\ \E message \in GeoErrors :
       WriteSegment(lookups[i].idx, FailedSegment(lookups[i].seg, message))
  /\ lookups' = RemoveAt(lookups, i)

\* the forecast service answers the i-th call with daily values
ForecastReturnsAt(i) ==
  /\ i \in 1..Len(lookups)
  /\ lookups[i].stage = "forecast"
  /\ \E fJson \in ForecastResults :
       WriteSegment(lookups[i].idx,
                    FilledSegment(lookups[i].seg, lookups[i].first[1], fJson))
  /\ lookups' = RemoveAt(lookups, i)

\* the forecast step of the i-th call throws
ForecastFailsAt(i) ==
  /\ i \in 1..Len(lookups)
  /\ lookups[i].stage = "forecast"
  /\ \E message \in ForecastErrors :
       WriteSegment(lookups[i].idx, FailedSegment(lookups[i].seg, message))
  /\ lookups' = RemoveAt(lookups, i)

GeocodeReturns == \E i \in 1..MaxInFlight : GeocodeReturnsAt(i)
GeocodeFails == \E i \in 1..MaxInFlight : GeocodeFailsAt(i)
ForecastReturns == \E i \in 1..MaxInFlight : ForecastReturnsAt(i)
ForecastFails == \E i \in 1..MaxInFlight : ForecastFailsAt(i)

\* the network answers the i-th call, or fails it
Responds(i) ==
  GeocodeReturnsAt(i) \/ GeocodeFailsAt(i) \/ ForecastReturnsAt(i) \/ ForecastFailsAt(i)

InitLookup ==
  /\ AppConstructed
  /\ checkedState = EmptyObject
  /\ bagOverrides = EmptyObject
  /\ fn = "autoFillWeather"
  /\ args = <<>>
  /\ ret = <<>>

NextLookup ==
  \/ updateSegment
  \/ addSegment
  \/ removeSegment
  \/ autoFillWeather
  \/ GeocodeReturns
  \/ GeocodeFails
  \/ ForecastReturns
  \/ ForecastFails

\* every network call returns or fails
SpecLookup ==
  InitLookup /\ [][NextLookup]_vars /\ \A i \in 1..MaxInFlight : WF_vars(Responds(i))

-----------------------------------------------------------------------------
(* Function-level specifications: Init draws the arguments, Apply calls the *)
(* function.  ret is <<>> before the call and <<result>> after it.          *)

Called == ret # <<>>
Result == ret[1]

PureInit(name, inputs) ==
  /\ AppConstructed
  /\ checkedState = EmptyObject
  /\ bagOverrides = EmptyObject
  /\ fn = name
  /\ args \in inputs
  /\ ret = <<>>

(* tripDaysInclusive *)

DaysInputs == [startISO : DateInputs, endISO : DateInputs]

InitDays == PureInit("tripDaysInclusive", DaysInputs)

ApplyDays ==
  /\ fn = "tripDaysInclusive"
  /\ ~Called
  /\ ret' = <<tripDaysInclusive(args.startISO, args.endISO)>>
  /\ UNCHANGED <<appVars, fn, args>>

SpecDays == InitDays /\ [][ApplyDays]_vars

(* computeClothesMath *)

WashInputs ==
  {JsNum(n) : n \in -3..3} \cup {JsNumStr(2), JsEmptyStr, JsText, JsUndefined}

ClothesInputs ==
  [startISO : DateInputs, endISO : DateInputs, washes : WashInputs,
   includeSpareSet : BOOLEAN]

InitClothes == PureInit("computeClothesMath", ClothesInputs)

ApplyClothes ==
  /\ fn = "computeClothesMath"
  /\ ~Called
  /\ ret' = <<computeClothesMath(args.startISO, args.endISO, args.washes,
                                 args.includeSpareSet)>>
  /\ UNCHANGED <<appVars, fn, args>>

SpecClothes == InitClothes /\ [][ApplyClothes]_vars

(* computeWeatherSummary *)

TempInputs == {JsEmptyStr, JsText, JsUndefined, JsNumStr(-3), JsNumStr(20), JsNum(33)}

WeatherSegments ==
  {[NewSegment EXCEPT !.tempMin = lo, !.tempMax = hi, !.rainLikely = f[1],
                      !.hotSunLikely = f[2], !.humidLikely = f[3]] :
     lo \in TempInputs, hi \in TempInputs,
     f \in {<<FALSE, FALSE, FALSE>>, <<TRUE, FALSE, FALSE>>,
            <<FALSE, TRUE, FALSE>>, <<FALSE, FALSE, TRUE>>}}

WeatherInputs ==
  {<<a>> : a \in WeatherSegments}
    \cup {<<a, b>> : a \in WeatherSegments,
                     b \in {x \in WeatherSegments : ~x.hotSunLikely /\ ~x.humidLikely}}

InitWeather == PureInit("computeWeatherSummary", WeatherInputs)

ApplyWeather ==
  /\ fn = "computeWeatherSummary"
  /\ ~Called
  /\ ret' = <<computeWeatherSummary(args)>>
  /\ UNCHANGED <<appVars, fn, args>>

SpecWeather == InitWeather /\ [][ApplyWeather]_vars

(* generatePackingList *)

GenTempMins == {JsEmptyStr, JsNumStr(4), JsNumStr(11), JsNumStr(15), JsNumStr(20)}
GenTempMaxs == {JsEmptyStr, JsNumStr(20), JsNumStr(27), JsNumStr(30), JsNum(33)}
GenWeatherFlags ==
  {<<FALSE, FALSE, FALSE>>, <<TRUE, FALSE, FALSE>>,
   <<FALSE, TRUE, FALSE>>, <<FALSE, FALSE, TRUE>>}

GenSegment(sd, ed, lo, hi, f) ==
  [NewSegment EXCEPT !.startDate = sd, !.endDate = ed, !.tempMin = lo, !.tempMax = hi,
                     !.rainLikely = f[1], !.hotSunLikely = f[2], !.humidLikely = f[3]]

\* a later leg of the trip
SecondLeg ==
  GenSegment(<<2024, 3, 2>>, <<2024, 3, 5>>, JsNumStr(9), JsNumStr(28),
             <<TRUE, FALSE, FALSE>>)

\* one leg, or the leg followed by SecondLeg
Legs(a) == {<<a>>, <<a, SecondLeg>>}

GenWashes == {JsNum(-2), JsNum(-1), JsNum(0), JsNum(1), JsText}

NoFlags ==
  [pokemonGoNeeded |-> FALSE, altAccount |-> FALSE, eggWalker |-> FALSE,
   tradeList |-> FALSE, partnerPokemon |-> FALSE, isInternational |-> FALSE,
   isJapanTrip |-> FALSE, bringTablet |-> FALSE, bringWorkLaptop |-> FALSE]

AllFlags ==
  [pokemonGoNeeded : BOOLEAN, altAccount : BOOLEAN, eggWalker : BOOLEAN,
   tradeList : BOOLEAN, partnerPokemon : BOOLEAN, isInternational : BOOLEAN,
   isJapanTrip : BOOLEAN, bringTablet : BOOLEAN, bringWorkLaptop : BOOLEAN]

GenState(segs, w, spare, flags) ==
  [segments |-> segs, washes |-> w, includeSpareSet |-> spare,
   pokemonGoNeeded |-> flags.pokemonGoNeeded, altAccount |-> flags.altAccount,
   eggWalker |-> flags.eggWalker, tradeList |-> flags.tradeList,
   partnerPokemon |-> flags.partnerPokemon, isInternational |-> flags.isInternational,
   isJapanTrip |-> flags.isJapanTrip, bringTablet |-> flags.bringTablet,
   bringWorkLaptop |-> flags.bringWorkLaptop]

\* every combination of the trip flags on one plain trip
GenFlagInputs ==
  {GenState(<<GenSegment(<<2024, 2, 28>>, <<2024, 3, 2>>, JsEmptyStr, JsEmptyStr,
                         <<FALSE, FALSE, FALSE>>)>>, JsNum(1), TRUE, flags) :
     flags \in AllFlags}

\* every weather of a trip of one or two legs, with and without Pokemon GO
GenWeatherInputs ==
  UNION {{GenState(segs, JsNum(0), FALSE, [NoFlags EXCEPT !.pokemonGoNeeded = go]) :
            segs \in Legs(GenSegment(<<2024, 2, 28>>, ed, lo, hi, f))} :
           ed \in {<<2024, 2, 28>>, <<2024, 3, 2>>}, lo \in GenTempMins,
           hi \in GenTempMaxs, f \in GenWeatherFlags, go \in BOOLEAN}

\* every length of trip, wash count and spare flag in mild, humid and hot
\* weather, with and without Pokemon GO
GenClothesInputs ==
  UNION {{GenState(segs, w, spare, [NoFlags EXCEPT !.pokemonGoNeeded = go]) :
            segs \in Legs(GenSegment(sd, ed, t[1], t[2], <<FALSE, FALSE, t[3]>>))} :
           sd \in {<<>>, <<2024, 2, 28>>}, ed \in {<<2024, 2, 28>>, <<2024, 3, 2>>},
           t \in {<<JsEmptyStr, JsEmptyStr, FALSE>>, <<JsNumStr(20), JsNumStr(27), TRUE>>,
                  <<JsNumStr(20), JsNum(33), FALSE>>},
           w \in GenWashes, spare \in BOOLEAN, go \in BOOLEAN}

\* malformed trips: missing dates, an end before the start, temperatures that
\* are text or unset, a wash count that is no number, and no segment at all
GenMalformedInputs ==
  {GenState(<<>>, JsNum(0), FALSE, NoFlags)}
    \cup UNION {{GenState(segs, w, FALSE, NoFlags) :
                   segs \in Legs(GenSegment(d[1], d[2], t[1], t[2], <<FALSE, FALSE, FALSE>>))} :
                  d \in {<<<<>>, <<>>>>, <<<<>>, <<2024, 2, 28>>>>, <<<<2024, 2, 28>>, <<>>>>,
                         <<<<2024, 3, 9>>, <<2024, 2, 28>>>>},
                  t \in {<<JsText, JsText>>, <<JsUndefined, JsEmptyStr>>, <<JsText, JsNum(33)>>},
                  w \in {JsNum(0), JsText, JsUndefined}}

\* temperatures on both sides of every threshold of the clothes rules
GenThresholdMins ==
  {JsText} \cup {JsNumStr(n) : n \in {5, 6, 10, 11, 12, 13, 16, 17, 18, 19}}
GenThresholdMaxs ==
  {JsText} \cup {JsNumStr(n) : n \in {23, 24, 28, 31, 32}}

GenThresholdInputs ==
  {GenState(<<GenSegment(<<2024, 2, 28>>, <<2024, 3, 2>>, lo, hi, <<FALSE, FALSE, FALSE>>)>>,
            JsNum(0), FALSE, [NoFlags EXCEPT !.pokemonGoNeeded = go]) :
     lo \in GenThresholdMins, hi \in GenThresholdMaxs, go \in BOOLEAN}

\* trips whose segments carry the Pokemon GO flag, with the trip-wide flag
\* onGenerate passes for them
GenPogoSegments ==
  LET leg(sd, ed, go) ==
        [GenSegment(sd, ed, JsNumStr(20), JsNumStr(27), <<FALSE, FALSE, FALSE>>)
           EXCEPT !.pokemonGo = go]
  IN {<<leg(<<2024, 2, 28>>, <<2024, 3, 2>>, a)>> : a \in BOOLEAN}
       \cup {<<leg(<<2024, 2, 28>>, <<2024, 3, 2>>, a), leg(<<2024, 3, 2>>, <<2024, 3, 5>>, b)>> :
               a \in BOOLEAN, b \in BOOLEAN}

GenPogoInputs ==
  {GenState(segs, JsNum(1), TRUE,
            [NoFlags EXCEPT !.pokemonGoNeeded = PokemonGoNeededOf(segs), !.eggWalker = egg]) :
     segs \in GenPogoSegments, egg \in BOOLEAN}

GenInputs ==
  GenFlagInputs \cup GenWeatherInputs \cup GenClothesInputs \cup GenMalformedInputs
    \cup GenThresholdInputs \cup GenPogoInputs

InitGen == PureInit("generatePackingList", GenInputs)

ApplyGen ==
  /\ fn = "generatePackingList"
  /\ ~Called
  /\ ret' = <<generatePackingList(args)>>
  /\ UNCHANGED <<appVars, fn, args>>

SpecGen == InitGen /\ [][ApplyGen]_vars

(* applyOverrides *)

\* lists the engine generates: a plain trip, and a hot international Pokemon
\* GO trip with a laptop
OverrideItemLists ==
  {generatePackingList(GenState(<<GenSegment(<<2024, 2, 28>>, <<2024, 3, 2>>, lo, hi,
                                            <<FALSE, FALSE, FALSE>>)>>,
                                JsNum(1), TRUE, flags)) :
     lo \in {JsEmptyStr}, hi \in {JsEmptyStr, JsNum(33)},
     flags \in {NoFlags,
                [NoFlags EXCEPT !.pokemonGoNeeded = TRUE, !.isInternational = TRUE,
                                !.bringWorkLaptop = TRUE]}}

\* identity keys an override map may hold; the last is of no generated item
OverrideKeys ==
  {"Clothes__Hat", "Tech__Main iPhone", "Misc__Pillow", "Documents__Passport",
   "Tech__Pager"}

OverrideMaps ==
  UNION {[keys -> Bags] : keys \in SUBSET OverrideKeys}

OverrideInputs == [items : OverrideItemLists, overrides : OverrideMaps]

InitOverrides == PureInit("applyOverrides", OverrideInputs)

ApplyOverrides ==
  /\ fn = "applyOverrides"
  /\ ~Called
  /\ ret' = <<applyOverrides(args.items, args.overrides)>>
  /\ UNCHANGED <<appVars, fn, args>>

SpecOverrides == InitOverrides /\ [][ApplyOverrides]_vars

-----------------------------------------------------------------------------
(* Claims about the date, weather and clothes functions *)

SetMin(S) == CHOOSE x \in S : \A y \in S : x <= y
SetMax(S) == CHOOSE x \in S : \A y \in S : x >= y

\* a temperature field that holds a number: neither empty, unset nor
\* non-numeric text
HoldsNumber(v) == v.ty \in {"number", "numstr"}

FoldOver(S, pick(_)) == IF S = {} THEN Null ELSE Some(pick(S))

\* C2: computeWeatherSummary folds the minimum (maximum) over exactly the
\* segments whose tempMin (tempMax) holds a number; empty, unset and
\* non-numeric fields are excluded, and the result is null when none is left.
C2_EmptyTempsExcluded ==
  (fn = "computeWeatherSummary" /\ Called) =>
    LET mins == {args[i].tempMin.n : i \in {j \in 1..Len(args) : HoldsNumber(args[j].tempMin)}}
        maxs == {args[i].tempMax.n : i \in {j \in 1..Len(args) : HoldsNumber(args[j].tempMax)}}
    IN /\ Result.overallMin = FoldOver(mins, SetMin)
       /\ Result.overallMax = FoldOver(maxs, SetMax)

\* C3: for every washes input computeClothesMath yields washCount >= 0 and
\* cycles >= 1, and finite non-negative baseSets and setsNeeded.
C3_WashesNeverNegative ==
  (fn = "computeClothesMath" /\ Called) =>
    /\ Result.washCount >= 0
    /\ Result.cycles >= 1
    /\ Result.baseSets >= 0 /\ Result.baseSets < Infinity
    /\ Result.setsNeeded >= 0 /\ Result.setsNeeded < Infinity

\* C4: tripDaysInclusive is the number of whole days from start to end plus
\* one when end >= start, 0 when end < start or a date is empty, and it does
\* not decrease as end advances.
C4_TripDays ==
  (fn = "tripDaysInclusive" /\ Called) =>
    LET s == args.startISO
        e == args.endISO
    IN /\ (s = <<>> \/ e = <<>>) => Result = 0
       /\ (s # <<>> /\ e # <<>> /\ IsoLess(e, s)) => Result = 0
       /\ (s # <<>> /\ e # <<>> /\ ~IsoLess(e, s)) => Result = WholeDaysBetween(s, e) + 1
       /\ (s # <<>> /\ e # <<>>) =>
            \A e2 \in Dates : IsoLess(e, e2) => Result <= tripDaysInclusive(s, e2)

C4_Witness ==
  /\ fn = "tripDaysInclusive" /\ Called
  /\ args.startISO = <<2024, 2, 28>> /\ args.endISO = <<2024, 3, 1>>
  /\ Result = 3

\* an integer wash count W >= 0, as a number
IsWashCount(v) == v.ty = "number" /\ v.n >= 0

\* C5: for a fixed spare flag setsNeeded does not decrease when the day count
\* grows and does not grow when the wash count grows (D >= 0, integer W >= 0).
C5_SetsMonotone ==
  (fn = "computeClothesMath" /\ Called /\ IsWashCount(args.washes)) =>
    /\ \A s2 \in DateInputs, e2 \in DateInputs :
         tripDaysInclusive(s2, e2) >= Result.days =>
           computeClothesMath(s2, e2, args.washes, args.includeSpareSet).setsNeeded
             >= Result.setsNeeded
    /\ \A w2 \in {w \in WashInputs : IsWashCount(w)} :
         w2.n >= args.washes.n =>
           computeClothesMath(args.startISO, args.endISO, w2, args.includeSpareSet).setsNeeded
             <= Result.setsNeeded

C5_Witness ==
  /\ fn = "computeClothesMath" /\ Called
  /\ args.washes = JsNum(2) /\ Result.days = 4 /\ ~args.includeSpareSet
  /\ Result.setsNeeded = 2

-----------------------------------------------------------------------------
(* Claims about generatePackingList *)

GenCalled == fn = "generatePackingList" /\ Called

Names(items) == {items[i].name : i \in 1..Len(items)}

PogoSubFlagNames ==
  {"Alt phone", "Alt phone charging cable", "Egg walker", "iPhone (for egg walker)",
   "iPhone charging cable (for egg walker)", "Printed trade list", "Lanyard",
   "Partner Pokémon plush"}

\* C1: a sub-flag whose parent flag is false has no effect: without
\* isInternational the output has no 'Eki stamp book', and without
\* pokemonGoNeeded none of the alt-account, egg-walker, trade-list and
\* partner-Pokemon items, whatever the sub-flags are.
C1_SubFlagsInert ==
  GenCalled =>
    /\ ~args.isInternational => "Eki stamp book" \notin Names(Result)
    /\ ~args.pokemonGoNeeded => Names(Result) \cap PogoSubFlagNames = {}

\* the merge key (bag, category, name) of an item
Triple(it) == <<it.bag, it.category, it.name>>

\* the sum of the quantities of the emissions e[i..] that have the merge key
\* k and a quantity > 0
RECURSIVE EmittedQuantity(_, _, _)
EmittedQuantity(e, k, i) ==
  IF i > Len(e) THEN 0
  ELSE JsAdd(IF Triple(e[i]) = k /\ e[i].quantity > 0 THEN e[i].quantity ELSE 0,
             EmittedQuantity(e, k, i + 1))

\* C6: in the output of generatePackingList no two items share the merge key,
\* every quantity is > 0, and each quantity is the sum of the quantities of
\* the emissions with that key (those emitted with quantity <= 0 contribute
\* nothing and do not appear).
C6_MergedQuantities ==
  GenCalled =>
    LET out == Result
        e == emitItems(args)
    IN /\ \A i, j \in 1..Len(out) : i # j => Triple(out[i]) # Triple(out[j])
       /\ \A i \in 1..Len(out) :
            out[i].quantity > 0 /\ out[i].quantity = EmittedQuantity(e, Triple(out[i]), 1)
       /\ \A j \in 1..Len(e) :
            e[j].quantity > 0 <=> \E i \in 1..Len(out) : Triple(out[i]) = Triple(e[j])

\* two emissions of Hat are merged into one item of quantity 2, and the
\* clothes emitted with a negative quantity are dropped
C6_Witness ==
  /\ GenCalled
  /\ \E i \in 1..Len(Result) : Result[i].name = "Hat" /\ Result[i].quantity = 2
  /\ \E j \in 1..Len(emitItems(args)) :
       emitItems(args)[j].name = "Underwear" /\ emitItems(args)[j].quantity < 0
  /\ "Underwear" \notin Names(Result)

\* a <= b in the order (bag, category, name) under a string comparison
OrderedBy(cmp(_, _), a, b) ==
  \/ cmp(a.bag, b.bag) < 0
  \/ cmp(a.bag, b.bag) = 0 /\ cmp(a.category, b.category) < 0
  \/ cmp(a.bag, b.bag) = 0 /\ cmp(a.category, b.category) = 0 /\ cmp(a.name, b.name) <= 0

SortedBy(cmp(_, _), items) ==
  \A i, j \in 1..Len(items) : i < j => OrderedBy(cmp, items[i], items[j])

\* C7 as stated: the list is sorted by bag, category and name under the
\* ordinary comparison of strings by code units ('Laptop charger' before
\* 'iPhone charger').
C7_SortedByCodeUnits == GenCalled => SortedBy(CodeUnitCompare, Result)

\* C7 as amended: the list is sorted by bag, category and name under the
\* collation of localeCompare, which orders letters regardless of case
\* ('iPhone charger' before 'Laptop charger').
C7_SortedByCollation == GenCalled => SortedBy(Collate, Result)

C7_Witness ==
  /\ GenCalled
  /\ \E i, j \in 1..Len(Result) :
       /\ i < j
       /\ Triple(Result[i]) = <<"checked", "Tech", "iPhone charger">>
       /\ Triple(Result[j]) = <<"checked", "Tech", "Laptop charger">>

-----------------------------------------------------------------------------
(* Claims about the bag-override layer *)

\* the identity key category__name of an item
IdentityKey(it) == it.category \o "__" \o it.name

\* C8: applyOverrides returns a list of the same length and order in which an
\* item whose identity key has an entry in overrides has that entry as its
\* bag, every other item keeps its bag, and category, name and quantity are
\* unchanged.
C8_OverridesReplaceBagOnly ==
  (fn = "applyOverrides" /\ Called) =>
    /\ Len(Result) = Len(args.items)
    /\ \A i \in 1..Len(args.items) :
         /\ Result[i].category = args.items[i].category
         /\ Result[i].name = args.items[i].name
         /\ Result[i].quantity = args.items[i].quantity
         /\ Result[i].bag =
              IF IdentityKey(args.items[i]) \in DOMAIN args.overrides
              THEN args.overrides[IdentityKey(args.items[i])]
              ELSE args.items[i].bag

C8_Witness ==
  /\ fn = "applyOverrides" /\ Called
  /\ \E i \in 1..Len(Result) : Result[i].name = "Hat" /\ Result[i].bag = "carryOn"
  /\ \E i \in 1..Len(Result) : Result[i].bag # args.items[i].bag
  /\ \E i \in 1..Len(Result) :
       Result[i].name = "Pillow" /\ IdentityKey(Result[i]) \notin DOMAIN args.overrides

\* the override map and the displayed list after changeBagOverride(k, bag)
AfterChange(st, k, bag) ==
  [overrides |-> OverridesAfterChange(st.overrides, k, bag),
   generated |-> GeneratedAfterChange(st.generated, k, bag)]

Shown == [overrides |-> bagOverrides, generated |-> generated]

\* C9: applying the override map twice gives what applying it once gives,
\* and two bag changes of different identity keys give the same list and the
\* same override map in either order.
C9_IdempotentAndCommutative ==
  /\ LET base == generatePackingList(FormState)
     IN applyOverrides(applyOverrides(base, bagOverrides), bagOverrides)
          = applyOverrides(base, bagOverrides)
  /\ applyOverrides(applyOverrides(generated, bagOverrides), bagOverrides)
       = applyOverrides(generated, bagOverrides)
  /\ \A k1, k2 \in MovableKeys : \A b1, b2 \in Bags :
       k1 # k2 =>
         AfterChange(AfterChange(Shown, k1, b1), k2, b2)
           = AfterChange(AfterChange(Shown, k2, b2), k1, b1)

\* a list is displayed, an override moved a row, and two more rows can move
C9_Witness ==
  /\ Cardinality(MovableKeys) >= 3
  /\ moves >= 1
  /\ \E k \in MovableKeys : k \in DOMAIN bagOverrides
  /\ applyOverrides(generatePackingList(FormState), bagOverrides)
       # generatePackingList(FormState)

\* C10: every displayed item whose identity key has an entry in the override
\* map has that entry as its bag, after any sequence of form edits,
\* generations and bag changes.
C10_OverridesShown ==
  \A i \in 1..Len(generated) :
    IdentityKey(generated[i]) \in DOMAIN bagOverrides =>
      generated[i].bag = bagOverrides[IdentityKey(generated[i])]

\* the persisted override of Hat was applied by a generation, and one bag
\* change moved the Pillow at once
C10_Witness ==
  /\ moves = 1
  /\ DOMAIN bagOverrides = {"Clothes__Hat", "Misc__Pillow"}
  /\ \E i \in 1..Len(generated) : generated[i].name = "Hat" /\ generated[i].bag = "carryOn"
  /\ \E i \in 1..Len(generated) : generated[i].name = "Pillow" /\ generated[i].bag = "carryOn"

-----------------------------------------------------------------------------
(* Claims about the packing rules of generatePackingList *)

\* the positions of the items of this category and name
ItemsOf(items, category, name) ==
  {i \in 1..Len(items) : items[i].category = category /\ items[i].name = name}

Absent(items, category, name) == ItemsOf(items, category, name) = {}

\* the item is in the list exactly once, with this quantity and bag
HasOnce(items, category, name, quantity, bag) ==
  \E i \in 1..Len(items) :
    /\ ItemsOf(items, category, name) = {i}
    /\ items[i].quantity = quantity
    /\ items[i].bag = bag

\* the item is in the list, once with this quantity and bag, iff the condition holds
OnceIff(cond, items, category, name, quantity, bag) ==
  IF cond THEN HasOnce(items, category, name, quantity, bag)
  ELSE Absent(items, category, name)

\* the day count of the trip of a form state
TripDays(state) ==
  LET window == computeOverallTripWindow(state.segments)
  IN tripDaysInclusive(window.startISO, window.endISO)

\* the fixed baseline items: <<bag, category, name>>
BaselineItems ==
  {<<"carryOn", "Tech", n>> :
     n \in {"Main iPhone", "Apple Watch", "AirPods", "Viture neckband", "Viture glasses"}}
    \cup {<<"carryOn", "Toiletries", n>> :
            n \in {"Travel hand sanitiser (100ml or less)", "Face masks", "Paracetamol",
                   "Lip balm"}}
    \cup {<<"checked", "Toiletries", n>> :
            n \in {"Toothbrush", "Toothpaste", "Deodorant", "Body wash", "Beard wash",
                   "Vitamins", "Band aids", "Condoms"}}
    \cup {<<"checked", "Misc", "Pillow">>}

\* C11: for every input, malformed ones included, generatePackingList returns
\* a list that holds each fixed baseline item exactly once, with quantity 1,
\* in its default bag.
C11_BaselineAlwaysPresent ==
  GenCalled =>
    /\ DOMAIN Result = 1..Len(Result)
    /\ \A b \in BaselineItems : HasOnce(Result, b[2], b[3], 1, b[1])

\* one segment without dates, text for temperatures and for the wash count,
\* every flag false: the list is the baseline and the three fixed chargers
C11_Witness ==
  /\ GenCalled
  /\ Len(args.segments) = 1
  /\ args.segments[1].startDate = <<>> /\ args.segments[1].endDate = <<>>
  /\ args.segments[1].tempMin = JsText /\ args.segments[1].tempMax = JsText
  /\ args.washes = JsText
  /\ ~args.pokemonGoNeeded /\ ~args.isInternational /\ ~args.bringTablet
  /\ Len(Result) = Cardinality(BaselineItems) + 3

\* C12: the trip-wide Pokemon GO flag is true iff some segment has its flag
\* set; when it is true the output holds Hat (checked), Power bank, Pokemon GO
\* Plus+, Sunscreen and Satchel, and with eggWalker also Egg walker x1 (carry
\* on), iPhone (for egg walker) x2 (carry on) and its cable x2 (checked).
C12_PokemonGoItems ==
  GenCalled =>
    /\ PokemonGoNeededOf(args.segments)
         <=> Cardinality({i \in 1..Len(args.segments) : args.segments[i].pokemonGo}) >= 1
    /\ args.pokemonGoNeeded =>
         /\ \E i \in ItemsOf(Result, "Clothes", "Hat") : Result[i].bag = "checked"
         /\ \A n \in {"Power bank", "Pokémon GO Plus+", "Sunscreen", "Satchel"} :
              ~Absent(Result, "Pokémon GO", n)
    /\ (args.pokemonGoNeeded /\ args.eggWalker) =>
         /\ HasOnce(Result, "Pokémon GO", "Egg walker", 1, "carryOn")
         /\ HasOnce(Result, "Pokémon GO", "iPhone (for egg walker)", 2, "carryOn")
         /\ HasOnce(Result, "Pokémon GO", "iPhone charging cable (for egg walker)", 2,
                    "checked")

\* only the second of two segments has the flag, eggWalker is set
C12_Witness ==
  /\ GenCalled
  /\ Len(args.segments) = 2
  /\ ~args.segments[1].pokemonGo /\ args.segments[2].pokemonGo
  /\ args.pokemonGoNeeded /\ args.eggWalker
  /\ HasOnce(Result, "Pokémon GO", "iPhone (for egg walker)", 2, "carryOn")
  /\ HasOnce(Result, "Pokémon GO", "Satchel", 1, "checked")

\* C13: with D > 0 days, W >= 0 washes and spare flag S the output holds
\* Underwear, Socks and Tops once each, checked, with quantity
\* ceil(D / (W + 1)) + (1 if S); with D = 0 it holds none of them.
C13_ClothesQuantities ==
  GenCalled =>
    LET D == TripDays(args)
        W == args.washes.n
        sets == ((D + W) \div (W + 1)) + (IF args.includeSpareSet THEN 1 ELSE 0)
    IN /\ (D > 0 /\ IsWashCount(args.washes)) =>
            \A n \in {"Underwear", "Socks", "Tops"} :
              HasOnce(Result, "Clothes", n, sets, "checked")
       /\ D = 0 => \A n \in {"Underwear", "Socks", "Tops"} : Absent(Result, "Clothes", n)

\* a one-day trip without washes and without a spare set: one of each
C13_Witness ==
  /\ GenCalled
  /\ TripDays(args) = 1 /\ args.washes = JsNum(0) /\ ~args.includeSpareSet
  /\ \A n \in {"Underwear", "Socks", "Tops"} : HasOnce(Result, "Clothes", n, 1, "checked")

\* C14: with a day count > 0 exactly one jacket tier fires on overallMin
\* (<= 5: Warm jacket and Warm layer; <= 12: Light jacket and Warm layer;
\* <= 16: Light layer; else none), and Beanie, Scarf and Gloves are present
\* iff overallMin <= 10, whichever jacket tier fired.
C14_JacketTiers ==
  (GenCalled /\ TripDays(args) > 0) =>
    LET m == computeWeatherSummary(args.segments).overallMin
        atMost(n) == ~m.isNull /\ m.n <= n
    IN /\ OnceIff(atMost(5), Result, "Clothes", "Warm jacket", 1, "checked")
       /\ OnceIff(atMost(12) /\ ~atMost(5), Result, "Clothes", "Light jacket", 1, "checked")
       /\ OnceIff(atMost(12), Result, "Clothes", "Warm layer (jumper or hoodie)", 1,
                  "checked")
       /\ OnceIff(atMost(16) /\ ~atMost(12), Result, "Clothes",
                  "Light layer (jumper or cardigan)", 1, "checked")
       /\ \A n \in {"Beanie", "Scarf", "Gloves"} :
            OnceIff(atMost(10), Result, "Clothes", n, 1, "checked")

\* the accessories with the light jacket: overallMin between 5 and 10
C14_Witness ==
  /\ GenCalled /\ TripDays(args) > 0
  /\ computeWeatherSummary(args.segments).overallMin = Some(10)
  /\ HasOnce(Result, "Clothes", "Light jacket", 1, "checked")
  /\ HasOnce(Result, "Clothes", "Beanie", 1, "checked")
  /\ Absent(Result, "Clothes", "Warm jacket")

\* C15: the output holds at most one Clothes/Hat, whose quantity is the number
\* of hat rules that fired (weather: day count > 0 and overallMax >= 32;
\* Pokemon GO: the trip-wide flag); Hat (optional) x1 is present iff day count
\* > 0 and 28 <= overallMax < 32; the weather rule never emits both.
C15_HatMerging ==
  GenCalled =>
    LET w == computeWeatherSummary(args.segments)
        D == TripDays(args)
        weatherHat == D > 0 /\ ~w.overallMax.isNull /\ w.overallMax.n >= 32
        fired == (IF weatherHat THEN 1 ELSE 0) + (IF args.pokemonGoNeeded THEN 1 ELSE 0)
        emitted == Names(addWeatherClothes(w.overallMin, w.overallMax, w.anyRain, w.anySun))
    IN /\ Cardinality(ItemsOf(Result, "Clothes", "Hat")) <= 1
       /\ OnceIff(fired > 0, Result, "Clothes", "Hat", fired, "checked")
       /\ OnceIff(D > 0 /\ ~w.overallMax.isNull /\ w.overallMax.n >= 28 /\ w.overallMax.n < 32,
                  Result, "Clothes", "Hat (optional)", 1, "checked")
       /\ ~({"Hat", "Hat (optional)"} \subseteq emitted)

\* both hat rules fire and merge into Hat x2
C15_Witness ==
  /\ GenCalled /\ TripDays(args) > 0
  /\ args.pokemonGoNeeded
  /\ computeWeatherSummary(args.segments).overallMax = Some(32)
  /\ HasOnce(Result, "Clothes", "Hat", 2, "checked")
  /\ Absent(Result, "Clothes", "Hat (optional)")

\* C16: with a day count > 0 the output holds Jeans x1 iff overallMin is
\* present and <= 18, Shorts x2 iff overallMax is present and >= 24, and
\* Bottoms x max(1, ceil(setsNeeded / 2)) iff neither holds; so it always
\* holds a bottoms item, and Bottoms never with Jeans or Shorts.
C16_Bottoms ==
  (GenCalled /\ TripDays(args) > 0) =>
    LET w == computeWeatherSummary(args.segments)
        window == computeOverallTripWindow(args.segments)
        sets == computeClothesMath(window.startISO, window.endISO, args.washes,
                                   args.includeSpareSet).setsNeeded
        half == IF sets = Infinity THEN Infinity
                ELSE IF sets <= 2 THEN 1 ELSE (sets + 1) \div 2
        jeans == ~w.overallMin.isNull /\ w.overallMin.n <= 18
        shorts == ~w.overallMax.isNull /\ w.overallMax.n >= 24
    IN /\ OnceIff(jeans, Result, "Clothes", "Jeans (or other long pants)", 1, "checked")
       /\ OnceIff(shorts, Result, "Clothes", "Shorts", 2, "checked")
       /\ OnceIff(~jeans /\ ~shorts, Result, "Clothes", "Bottoms", half, "checked")
       /\ {"Jeans (or other long pants)", "Shorts", "Bottoms"} \cap Names(Result) # {}

\* neither temperature rule holds on a four-day trip: Bottoms x2
C16_Witness ==
  /\ GenCalled /\ TripDays(args) = 4
  /\ computeWeatherSummary(args.segments).overallMin = Some(19)
  /\ computeWeatherSummary(args.segments).overallMax = Some(23)
  /\ HasOnce(Result, "Clothes", "Bottoms", 2, "checked")
  /\ Absent(Result, "Clothes", "Shorts")

-----------------------------------------------------------------------------
(* Claims about the displayed list *)

\* C17: after any sequence of generations and bag changes the displayed list
\* is in the canonical order (bag, then category, then name), and the rows of
\* each bag section are in category-then-name order.
C17_DisplayedListSorted ==
  /\ SortedBy(localeCompare, generated)
  /\ \A bag \in Bags : SortedBy(localeCompare, SectionRows(generated, bag))

\* the override maps and bag changes of C18
FewOverrides ==
  {EmptyObject, Put(EmptyObject, "Clothes__Hat", "carryOn"),
   Put(EmptyObject, "Tech__Main iPhone", "checked")}
FewChanges == {<<"Misc__Pillow", "carryOn">>, <<"Clothes__Hat", "carryOn">>}

\* no two items of the list have the same key
UniqueKeys(key(_), items) ==
  Cardinality({key(items[i]) : i \in 1..Len(items)}) = Len(items)

\* C18: no two items of the output of generatePackingList share the identity
\* key (category, name); so after applyOverrides, and after a bag change, no
\* two displayed items share the merge key, which is the id of their rows.
C18_IdentityKeysUnique ==
  GenCalled =>
    /\ UniqueKeys(IdentityKey, Result)
    /\ \A o \in FewOverrides :
         LET shown == applyOverrides(Result, o)
         IN /\ UniqueKeys(RowId, shown)
            /\ \A c \in FewChanges :
                 LET moved == GeneratedAfterChange(shown, c[1], c[2])
                 IN /\ UniqueKeys(RowId, moved)
                    /\ \A i \in 1..Len(moved) :
                         IdentityKey(moved[i]) = IdentityKey(Result[i])

\* both hat rules fired, and the merged Hat was moved to the carry-on bag,
\* next to the items the engine put there
C18_Witness ==
  /\ GenCalled
  /\ HasOnce(Result, "Clothes", "Hat", 2, "checked")
  /\ HasOnce(GeneratedAfterChange(Result, "Clothes__Hat", "carryOn"),
             "Clothes", "Hat", 2, "carryOn")
  /\ HasOnce(Result, "Pokémon GO", "Power bank", 1, "carryOn")

\* C19: in every reachable state every key marked packed in checkedState is
\* the row id of an item of the generated list, so packedCount <= totalItems
\* and the progress percentage is at most 100.
C19_CheckedKeysDisplayed ==
  /\ \A k \in DOMAIN checkedState :
       checkedState[k] => \E i \in 1..Len(generated) : RowId(generated[i]) = k
  /\ packedCount <= totalItems
  /\ progress <= 100

-----------------------------------------------------------------------------
(* Claims about the weather lookup *)

\* the ids segments can have
SegmentIds == 1..(MaxEdits + 1)

\* the segment with this id is in the list and shows its lookup as running
Loading(id) ==
  \E i \in 1..Len(segments) : segments[i].id = id /\ segments[i].weatherLoading

\* C20: when every network call returns or fails, a segment whose lookup is
\* running is eventually no longer loading (its weatherLoading is false, or
\* it has left the list), whatever updateSegment, addSegment and
\* removeSegment do meanwhile: no segment of the list loads forever.
C20_LookupEnds == \A id \in SegmentIds : []<>(~Loading(id))

\* what the user sets on a segment card besides the weather, and the id
UserFields(seg) ==
  [id |-> seg.id, location |-> seg.location, startDate |-> seg.startDate,
   endDate |-> seg.endDate, pokemonGo |-> seg.pokemonGo]

\* the step ends the i-th call in flight
CallEnds(i) == i \in 1..Len(lookups) /\ lookups' = RemoveAt(lookups, i)

\* C21: a step that ends a lookup merges its result only into the segment
\* that requested it (the one with the id the call captured): the list keeps
\* its length, every segment with another id is left as it was, and the
\* requesting segment keeps its id, location, dates and Pokemon GO flag as
\* they were just before the step, whatever updateSegment, addSegment,
\* removeSegment and other lookups did while the call was in flight.
C21_ResultMergedIntoRequester ==
  [][\A i \in 1..MaxInFlight :
       CallEnds(i) =>
         /\ Len(segments') = Len(segments)
         /\ \A k \in 1..Len(segments) :
              IF segments[k].id = lookups[i].seg.id
              THEN UserFields(segments'[k]) = UserFields(segments[k])
              ELSE segments'[k] = segments[k]]_vars

====
